---- MODULE Spec2Model ----
(***************************************************************************)
(* Model of scripts/generate-pr-help.js: the generator of the /help text   *)
(* of the PR actions bot.  generateHelpText reads ../package.json, takes   *)
(* the keys of its "scripts" member that start with "fix:", sorts them and *)
(* renders them, followed by sections built from three static tables.      *)
(*                                                                         *)
(* Representation.  A command name is a sequence of one-character strings, *)
(* so that startsWith and the default sort comparison are computed on its  *)
(* characters.  The markdown string is kept as the sequence of the         *)
(* template literals appended to it, one element per `markdown +=`         *)
(* statement: [layout, cmd, text] names the literal (its fixed text,       *)
(* which holds backquotes and emoji, is identified by `layout`) and the    *)
(* values substituted into it.                                             *)
(***************************************************************************)
EXTENDS Integers, Sequences, FiniteSets, TLC

\* Bounds of the explored inputs.
MaxLen == 3     \* members written in the "scripts" object of package.json

VARIABLES
  packageJsonFile,        \* what is on disk at <__dirname>/../package.json
  requireMain,            \* require.main === module
  pc,                     \* "start", "loaded" (required as a module), "exited"
  stdout,                 \* arguments of console.log, in order
  stderr,                 \* arguments of console.error, in order
  exitCode,               \* -1 while the process runs, then its exit status
  lastCall,               \* the embedding caller's latest call of generateHelpText
  COMMAND_DESCRIPTIONS,   \* the three module-level tables
  USAGE_EXAMPLES,
  TROUBLESHOOTING

vars == <<packageJsonFile, requireMain, pc, stdout, stderr, exitCode, lastCall,
          COMMAND_DESCRIPTIONS, USAGE_EXAMPLES, TROUBLESHOOTING>>

tables == <<COMMAND_DESCRIPTIONS, USAGE_EXAMPLES, TROUBLESHOOTING>>

-----------------------------------------------------------------------------
\* Characters and strings of characters.

Letters == <<"a", "b", "c", "d", "e", "f", "g", "h", "i", "j", "k", "l", "m",
             "n", "o", "p", "q", "r", "s", "t", "u", "v", "w", "x", "y", "z">>

Digits == <<"0", "1", "2", "3", "4", "5", "6", "7", "8", "9">>

IndexOf(seq, c) == CHOOSE i \in 1..Len(seq) : seq[i] = c

\* UTF-16 code unit of a character of a command name.
charCodeAt(c) ==
  IF \E i \in 1..Len(Letters) : Letters[i] = c THEN 96 + IndexOf(Letters, c)
  ELSE IF \E i \in 1..Len(Digits) : Digits[i] = c THEN 47 + IndexOf(Digits, c)
  ELSE IF c = ":" THEN 58
  ELSE 45  \* "-"

\* String(i) for an array index i >= 0.
RECURSIVE IndexToString(_)
IndexToString(i) ==
  IF i < 10 THEN <<Digits[i + 1]>>
  ELSE IndexToString(i \div 10) \o <<Digits[(i % 10) + 1]>>

\* String.prototype.startsWith
startsWith(s, prefix) ==
  /\ Len(s) >= Len(prefix)
  /\ SubSeq(s, 1, Len(prefix)) = prefix

\* a < b as strings: comparison of the code units, a proper prefix first.
RECURSIVE StringLess(_, _)
StringLess(a, b) ==
  IF b = <<>> THEN FALSE
  ELSE IF a = <<>> THEN TRUE
  ELSE IF charCodeAt(Head(a)) # charCodeAt(Head(b))
       THEN charCodeAt(Head(a)) < charCodeAt(Head(b))
       ELSE StringLess(Tail(a), Tail(b))

-----------------------------------------------------------------------------
\* The static tables.

FixPrefix == <<"f", "i", "x", ":">>

FixBare == <<"f", "i", "x">>

I18n == FixPrefix \o <<"i", "1", "8", "n">>

Refcache == FixPrefix \o <<"r", "e", "f", "c", "a", "c", "h", "e">>

Entry(k, v) == [key |-> k, value |-> v]

CommandDescriptionsLiteral == <<
  Entry(FixPrefix \o <<"d", "i", "c", "t">>,
        "Normalize cspell front matter in markdown files"),
  Entry(FixPrefix \o <<"e", "x", "p", "i", "r", "e", "d">>,
        "Delete expired content files"),
  Entry(FixPrefix \o <<"f", "i", "l", "e", "n", "a", "m", "e", "s">>,
        "Rename files with underscores to kebab-case"),
  Entry(FixPrefix \o <<"f", "o", "r", "m", "a", "t">>,
        "Format code and trim trailing spaces"),
  Entry(FixPrefix \o <<"h", "t", "m", "l", "t", "e", "s", "t", "-",
                       "c", "o", "n", "f", "i", "g">>,
        "Update htmltest configuration"),
  Entry(I18n \o <<":", "s", "t", "a", "t", "u", "s">>,
        "Update internationalization status"),
  Entry(I18n \o <<":", "n", "e", "w">>,
        "Handle new internationalization files"),
  Entry(I18n, "Run all i18n fixes (new + status)"),
  Entry(FixPrefix \o <<"m", "a", "r", "k", "d", "o", "w", "n">>,
        "Fix markdown linting issues and trailing spaces"),
  Entry(Refcache \o <<":", "r", "e", "f", "r", "e", "s", "h">>,
        "Refresh reference cache (prune entries)"),
  Entry(Refcache, "Prune reference cache and check links"),
  Entry(FixPrefix \o <<"s", "u", "b", "m", "o", "d", "u", "l", "e">>,
        "Pin submodules and update semconv mounts"),
  Entry(FixPrefix \o <<"t", "e", "x", "t">>, "Fix textlint issues"),
  Entry(FixPrefix \o <<"a", "l", "l">>, "Run all fix commands (except i18n)"),
  Entry(FixBare, "Run all fix commands") >>

UsageExamplesLiteral == <<
  [command |-> "/fix:format",
   description |-> "Format all code files and fix spacing issues",
   when |-> "Use when CI shows formatting errors"],
  [command |-> "/fix:markdown",
   description |-> "Fix markdown linting issues",
   when |-> "Use when markdownlint checks fail"],
  [command |-> "/fix:refcache",
   description |-> "Update the reference cache for link checking",
   when |-> "Use when link checker shows stale cached results"],
  [command |-> "/fix:submodule",
   description |-> "Update git submodules to latest versions",
   when |-> "Use when submodule updates are needed"] >>

TroubleshootingLiteral == <<
  [issue |-> "Command had no effect",
   solution |-> "The command may have run successfully but found nothing to fix. Check the workflow run logs for details."],
  [issue |-> "Command failed with errors",
   solution |-> "Check the workflow run logs for specific error messages. You may need to fix issues manually."],
  [issue |-> "Patch too large",
   solution |-> "The changes exceed 1MB limit. Break into smaller fixes or apply changes manually."],
  [issue |-> "Patch failed to apply",
   solution |-> "Conflicts with recent commits. Pull latest changes and run the fix locally."] >>

\* The text used for a command that has no description.
FallbackDescription == "Run fix command"

-----------------------------------------------------------------------------
\* JavaScript values, as far as the generator looks at them.  `props` are the
\* own enumerable string-keyed properties of an object in creation order,
\* `chars` the characters of a string, `n` the length of an array.

JSValue(type, chars, n, props) ==
  [type |-> type, chars |-> chars, n |-> n, props |-> props]

Undefined == JSValue("undefined", <<>>, 0, <<>>)

Null == JSValue("null", <<>>, 0, <<>>)

NumberValue == JSValue("number", <<>>, 0, <<>>)

BooleanValue == JSValue("boolean", <<>>, 0, <<>>)

StringValue(chars) == JSValue("string", chars, 0, <<>>)

ArrayValue(n) == JSValue("array", <<>>, n, <<>>)

ObjectValue(props) == JSValue("object", <<>>, 0, props)

\* An outcome of a call: a returned value or a thrown Error with its message.
Return(v) == [threw |-> FALSE, message |-> "", value |-> v]

Throw(msg) == [threw |-> TRUE, message |-> msg, value |-> <<>>]

ENOENT == "ENOENT: no such file or directory, open package.json"

SyntaxErrorMessage == "Unexpected end of JSON input"

TypeErrorNull == "Cannot read properties of null (reading scripts)"

TypeErrorKeys == "Cannot convert undefined or null to object"

-----------------------------------------------------------------------------
\* package.json on disk.  `kind` is "missing" (no readable file), "garbage"
\* (text that is not JSON) or "json"; for JSON text `top` is the type of the
\* top-level value and `scripts` the value written for its "scripts" member
\* (Undefined when there is none), an object's `props` being the members in
\* the order of the text, where a name may be written more than once.

File(kind, top, scripts) == [kind |-> kind, top |-> top, scripts |-> scripts]

\* fs.readFileSync(packageJsonPath, 'utf8')
readFileSync(file) ==
  IF file.kind = "missing" THEN Throw(ENOENT) ELSE Return(file)

\* One member of a JSON object text is defined on the object being built: a
\* repeated name keeps its place and takes the later value.
DefineProperty(props, member) ==
  IF \E i \in 1..Len(props) : props[i].key = member.key
  THEN [i \in 1..Len(props) |->
          IF props[i].key = member.key THEN member ELSE props[i]]
  ELSE Append(props, member)

RECURSIVE ParseMembers(_, _)
ParseMembers(props, members) ==
  IF members = <<>> THEN props
  ELSE ParseMembers(DefineProperty(props, Head(members)), Tail(members))

\* JSON.parse(text): the parsed top-level value with its "scripts" member.
JSONparse(text) ==
  IF text.kind = "garbage" THEN Throw(SyntaxErrorMessage)
  ELSE Return([type |-> text.top,
               scripts |-> IF text.scripts.type = "object"
                           THEN ObjectValue(ParseMembers(<<>>, text.scripts.props))
                           ELSE text.scripts])

\* packageJson.scripts
GetScripts(packageJson) ==
  IF packageJson.type = "null" THEN Throw(TypeErrorNull)
  ELSE IF packageJson.type = "object" THEN Return(packageJson.scripts)
  ELSE Return(Undefined)

\* Object.keys(value).  No name of a member is an array index here, so an
\* object's keys come in creation order.
ObjectKeys(value) ==
  IF value.type \in {"undefined", "null"} THEN Throw(TypeErrorKeys)
  ELSE IF value.type = "object"
    THEN Return([i \in 1..Len(value.props) |-> value.props[i].key])
  ELSE IF value.type = "string"
    THEN Return([i \in 1..Len(value.chars) |-> IndexToString(i - 1)])
  ELSE IF value.type = "array"
    THEN Return([i \in 1..value.n |-> IndexToString(i - 1)])
  ELSE Return(<<>>)

\* filter, had the prefix been written 'fix', without the colon.
filter_bare(keys) == SelectSeq(keys, LAMBDA script : startsWith(script, FixBare))

\* filter, had the keys not been filtered.
filter_all(keys) == keys

\* .filter((script) => script.startsWith('fix:'))
filter(keys) == SelectSeq(keys, LAMBDA script : startsWith(script, FixPrefix))

RECURSIVE SortedInsert(_, _)
SortedInsert(x, sorted) ==
  IF sorted = <<>> THEN <<x>>
  ELSE IF StringLess(x, Head(sorted)) THEN <<x>> \o sorted
  ELSE <<Head(sorted)>> \o SortedInsert(x, Tail(sorted))

RECURSIVE SortFrom(_, _)
SortFrom(sorted, rest) ==
  IF rest = <<>> THEN sorted
  ELSE SortFrom(SortedInsert(Head(rest), sorted), Tail(rest))

\* sort, had the keys been left in the order of Object.keys.
sort_missing(keys) == keys

\* Array.prototype.sort() without a comparator: ascending by code units.
sort(keys) == SortFrom(<<>>, keys)

\* Description, had the fallback been left out.
Description_noFallback(descriptions, cmd) ==
  IF \E i \in 1..Len(descriptions) : descriptions[i].key = cmd
  THEN descriptions[CHOOSE i \in 1..Len(descriptions) :
                      descriptions[i].key = cmd].value
  ELSE "undefined"

\* COMMAND_DESCRIPTIONS[cmd] || 'Run fix command'
Description(descriptions, cmd) ==
  IF \E i \in 1..Len(descriptions) :
       descriptions[i].key = cmd /\ descriptions[i].value # ""
  THEN descriptions[CHOOSE i \in 1..Len(descriptions) :
                      descriptions[i].key = cmd].value
  ELSE FallbackDescription

Line(layout, cmd, text) == [layout |-> layout, cmd |-> cmd, text |-> text]

Static(layout) == Line(layout, <<>>, "")

\* markdown += `- \`/${cmd}\` - ${description}\n`
CommandLine(descriptions, cmd) ==
  Line("command", cmd, Description(descriptions, cmd))

\* fixCommands.forEach(...)
CommandLines(descriptions, fixCommands) ==
  [i \in 1..Len(fixCommands) |-> CommandLine(descriptions, fixCommands[i])]

ExampleLines(example) ==
  << Line("exampleCommand", <<>>, example.command),
     Line("exampleDescription", <<>>, example.description),
     Line("exampleWhen", <<>>, example.when) >>

RECURSIVE UsageLines_reversed(_)
\* UsageLines, had the list been walked from its end.
UsageLines_reversed(examples) ==
  IF examples = <<>> THEN <<>>
  ELSE UsageLines_reversed(Tail(examples)) \o ExampleLines(Head(examples))

RECURSIVE UsageLines(_)
\* USAGE_EXAMPLES.forEach(...)
UsageLines(examples) ==
  IF examples = <<>> THEN <<>>
  ELSE ExampleLines(Head(examples)) \o UsageLines(Tail(examples))

TipLines(tip) ==
  << Line("tipIssue", <<>>, tip.issue),
     Line("tipSolution", <<>>, tip.solution) >>

RECURSIVE TroubleshootingLines(_)
\* TROUBLESHOOTING.forEach(...)
TroubleshootingLines(tips) ==
  IF tips = <<>> THEN <<>>
  ELSE TipLines(Head(tips)) \o TroubleshootingLines(Tail(tips))

Preamble ==
  << Static("title"), Static("intro"),
     Static("commandsHeader"), Static("commandsIntro") >>

HowItWorks ==
  << Static("howHeader"), Static("how1"), Static("how2"),
     Static("how3"), Static("how4") >>

Closing ==
  << Static("docsHeader"), Static("docsContributing"), Static("docsReadme"),
     Static("docsWorkflow"), Static("rule"), Static("footer") >>

\* The markdown built from the sorted commands and the tables.
Markdown(fixCommands, descriptions, examples, tips) ==
  Preamble \o CommandLines(descriptions, fixCommands)
    \o <<Static("usageHeader")>> \o UsageLines(examples)
    \o HowItWorks
    \o <<Static("troubleshootingHeader")>> \o TroubleshootingLines(tips)
    \o Closing

\* FixCommands, had fixCommands been a module-level array that every call
\* pushes onto: the commands of the call before come first.
FixCommands_accumulating(keys) ==
  LET earlier == IF lastCall.made /\ ~lastCall.outcome.threw
                 THEN SelectSeq(lastCall.outcome.value,
                                LAMBDA l : l.layout = "command")
                 ELSE <<>>
  IN [i \in 1..Len(earlier) |-> earlier[i].cmd] \o sort(filter(keys))

\* const fixCommands = Object.keys(...).filter(...).sort()
FixCommands(keys) == sort(filter(keys))

\* generateHelpText, had it caught the failure of reading the file and gone
\* on with no commands.
generateHelpText_swallow(file, descriptions, examples, tips) ==
  LET text == readFileSync(file) IN
  IF text.threw THEN Return(Markdown(<<>>, descriptions, examples, tips)) ELSE
  LET parsed == JSONparse(text.value) IN
  IF parsed.threw THEN parsed ELSE
  LET scripts == GetScripts(parsed.value) IN
  IF scripts.threw THEN scripts ELSE
  LET keys == ObjectKeys(scripts.value) IN
  IF keys.threw THEN keys ELSE
  Return(Markdown(FixCommands(keys.value), descriptions, examples, tips))

generateHelpText(file, descriptions, examples, tips) ==
  LET text == readFileSync(file) IN
  IF text.threw THEN text ELSE
  LET parsed == JSONparse(text.value) IN
  IF parsed.threw THEN parsed ELSE
  LET scripts == GetScripts(parsed.value) IN
  IF scripts.threw THEN scripts ELSE
  LET keys == ObjectKeys(scripts.value) IN
  IF keys.threw THEN keys ELSE
  Return(Markdown(FixCommands(keys.value), descriptions, examples, tips))

-----------------------------------------------------------------------------
\* The contents package.json is given.

KeyA == FixPrefix \o <<"a">>

KeyAll == FixPrefix \o <<"a", "l", "l">>

KeyText == FixPrefix \o <<"t", "e", "x", "t">>

KeyOther == <<"o", "t", "h", "e", "r">>

KeyPool == {KeyA, KeyAll, KeyText, FixBare, KeyOther}

\* Script texts, the i-th member written getting the i-th of them in turn.
ScriptTexts == <<"hugo", "prettier --write .", "npm run fix:format",
                 "markdownlint --fix", "textlint --fix">>

ScriptText(i) == ScriptTexts[((i - 1) % Len(ScriptTexts)) + 1]

\* Up to MaxLen different names in any order.
NameLists ==
  { names \in UNION {[1..n -> KeyPool] : n \in 0..MaxLen} :
      \A i, j \in 1..Len(names) : names[i] = names[j] => i = j }

\* The members of a "scripts" object as written: the names of a list, of
\* which the first may be written once more at the end.
Written(names, again) ==
  IF again /\ names # <<>> THEN Append(names, names[1]) ELSE names

ScriptsObjects ==
  { ObjectValue([i \in 1..Len(Written(names, again)) |->
                   Entry(Written(names, again)[i], ScriptText(i))]) :
      names \in NameLists, again \in BOOLEAN }

\* Well-formed manifests: an object whose "scripts" member is an object.
Manifests == { File("json", "object", scripts) : scripts \in ScriptsObjects }

\* package.json cannot be read, or its text is not JSON.
Unreadable == { File("missing", "none", Undefined),
                File("garbage", "none", Undefined) }

\* JSON of another structure: a top-level value that is not an object, no
\* "scripts" member, or a "scripts" member that is not an object.
Misshapen ==
  { File("json", top, Undefined) :
      top \in {"null", "number", "string", "array", "object"} }
  \cup { File("json", "object", v) :
           v \in {Null, NumberValue, BooleanValue, StringValue(KeyA), ArrayValue(1)} }

Files == Manifests \cup Unreadable \cup Misshapen

\* The names of a manifest that are commands: those written in its "scripts"
\* object whose first four characters are f, i, x and a colon.
FixNames(file) ==
  { file.scripts.props[i].key : i \in
      { j \in 1..Len(file.scripts.props) :
          LET name == file.scripts.props[j].key IN
          /\ Len(name) >= 4
          /\ name[1] = "f" /\ name[2] = "i" /\ name[3] = "x" /\ name[4] = ":" } }

NoCall ==
  [made |-> FALSE, input |-> File("missing", "none", Undefined),
   fileAfter |-> File("missing", "none", Undefined),
   tablesBefore |-> <<>>, outcome |-> Throw(""),
   sameInput |-> FALSE, sameFixNames |-> FALSE, sameOutcome |-> FALSE]

-----------------------------------------------------------------------------
\* The program.

Init ==
  /\ packageJsonFile \in Files
  /\ requireMain \in BOOLEAN
  /\ pc = "start"
  /\ stdout = <<>>
  /\ stderr = <<>>
  /\ exitCode = -1
  /\ lastCall = NoCall
  /\ COMMAND_DESCRIPTIONS = CommandDescriptionsLiteral
  /\ USAGE_EXAMPLES = UsageExamplesLiteral
  /\ TROUBLESHOOTING = TroubleshootingLiteral

\* MainExecution, had the catch block reported the error without exiting.
MainExecution_noExit ==
  /\ requireMain
  /\ pc = "start"
  /\ LET helpText == generateHelpText(packageJsonFile, COMMAND_DESCRIPTIONS,
                                      USAGE_EXAMPLES, TROUBLESHOOTING)
     IN IF helpText.threw
        THEN /\ stderr' = Append(stderr, [label |-> "Error generating help text:",
                                          message |-> helpText.message])
             /\ stdout' = stdout
        ELSE /\ stdout' = Append(stdout, helpText.value)
             /\ stderr' = stderr
  /\ exitCode' = 0
  /\ pc' = "exited"
  /\ UNCHANGED <<packageJsonFile, requireMain, lastCall, tables>>

\* node scripts/generate-pr-help.js: the module is the entry point, so its
\* main block runs; the process ends with status 0 unless the block exits.
MainExecution ==
  /\ requireMain
  /\ pc = "start"
  /\ LET helpText == generateHelpText(packageJsonFile, COMMAND_DESCRIPTIONS,
                                      USAGE_EXAMPLES, TROUBLESHOOTING)
     IN IF helpText.threw
        THEN /\ stderr' = Append(stderr, [label |-> "Error generating help text:",
                                          message |-> helpText.message])
             /\ exitCode' = 1
             /\ stdout' = stdout
        ELSE /\ stdout' = Append(stdout, helpText.value)
             /\ exitCode' = 0
             /\ stderr' = stderr
  /\ pc' = "exited"
  /\ UNCHANGED <<packageJsonFile, requireMain, lastCall, tables>>

\* require('./generate-pr-help'): the main block is skipped and
\* generateHelpText is exported.
Require ==
  /\ ~requireMain
  /\ pc = "start"
  /\ pc' = "loaded"
  /\ UNCHANGED <<packageJsonFile, requireMain, stdout, stderr, exitCode,
                 lastCall, tables>>

\* What lastCall keeps of a call: the file and the tables it found, the file
\* it left, its outcome, and how it compares with the call before it (whether
\* that one found the same file, or a manifest with the same command names,
\* and whether it ended the same).
CallRecord(outcome, fileAfter) ==
  [made |-> TRUE,
   input |-> packageJsonFile,
   fileAfter |-> fileAfter,
   tablesBefore |-> tables,
   outcome |-> outcome,
   sameInput |-> /\ lastCall.made
                 /\ lastCall.input = packageJsonFile
                 /\ lastCall.tablesBefore = tables,
   sameFixNames |-> /\ lastCall.made
                    /\ lastCall.input \in Manifests
                    /\ packageJsonFile \in Manifests
                    /\ FixNames(lastCall.input) = FixNames(packageJsonFile)
                    /\ lastCall.tablesBefore = tables,
   sameOutcome |-> lastCall.made /\ lastCall.outcome = outcome]

\* CallGenerateHelpText, had the examples been put in reverse in place
\* (USAGE_EXAMPLES.reverse()) after rendering.
CallGenerateHelpText_reversing ==
  /\ pc = "loaded"
  /\ UNCHANGED <<packageJsonFile, requireMain, pc, stdout, stderr, exitCode,
                 COMMAND_DESCRIPTIONS, TROUBLESHOOTING>>
  /\ USAGE_EXAMPLES' = [i \in 1..Len(USAGE_EXAMPLES) |->
                          USAGE_EXAMPLES[Len(USAGE_EXAMPLES) + 1 - i]]
  /\ lastCall' = CallRecord(generateHelpText(packageJsonFile, COMMAND_DESCRIPTIONS,
                                             USAGE_EXAMPLES, TROUBLESHOOTING),
                            packageJsonFile')

\* The caller calls the exported generateHelpText().
CallGenerateHelpText ==
  /\ pc = "loaded"
  /\ UNCHANGED <<packageJsonFile, requireMain, pc, stdout, stderr, exitCode,
                 tables>>
  /\ lastCall' = CallRecord(generateHelpText(packageJsonFile, COMMAND_DESCRIPTIONS,
                                             USAGE_EXAMPLES, TROUBLESHOOTING),
                            packageJsonFile')

\* Between two calls package.json is rewritten (several rewrites count as
\* one).
WriteManifest ==
  /\ pc = "loaded"
  /\ lastCall.made
  /\ packageJsonFile = lastCall.fileAfter
  /\ \E file \in Files \ {packageJsonFile} : packageJsonFile' = file
  /\ UNCHANGED <<requireMain, pc, stdout, stderr, exitCode, lastCall, tables>>

Next ==
  \/ MainExecution
  \/ Require
  \/ CallGenerateHelpText
  \/ WriteManifest

Spec == Init /\ [][Next]_vars

-----------------------------------------------------------------------------
\* What the claims are stated about.

\* The help texts produced so far, each with the package.json it came from:
\* the one returned to the caller's latest call and the one printed by the
\* main block.
Produced ==
  (IF lastCall.made /\ ~lastCall.outcome.threw
   THEN {[input |-> lastCall.input, doc |-> lastCall.outcome.value]} ELSE {})
  \cup
  (IF pc = "exited" /\ stdout # <<>>
   THEN {[input |-> packageJsonFile, doc |-> stdout[1]]} ELSE {})

\* The lines of the Available Commands section: those after its two heading
\* lines and before the Usage Examples heading.
CommandSection(doc) ==
  LET first == 1 + CHOOSE i \in 1..Len(doc) : doc[i].layout = "commandsIntro"
      next == CHOOSE i \in 1..Len(doc) : doc[i].layout = "usageHeader"
  IN SubSeq(doc, first, next - 1)

\* The names written in the "scripts" object of a file (none if it has none).
WrittenNames(file) ==
  { file.scripts.props[i].key : i \in 1..Len(file.scripts.props) }

\* a before b in the lexicographic order of the code units.
LexBefore(a, b) ==
  \E k \in 1..Len(b) :
    /\ \A i \in 1..(k - 1) : i <= Len(a) /\ a[i] = b[i]
    /\ \/ k = Len(a) + 1
       \/ k <= Len(a) /\ charCodeAt(a[k]) < charCodeAt(b[k])

\* The description the table of the source gives a command, "" if none.
TableText(cmd) ==
  LET at == { i \in 1..Len(CommandDescriptionsLiteral) :
                CommandDescriptionsLiteral[i].key = cmd }
  IN IF at = {} THEN "" ELSE CommandDescriptionsLiteral[CHOOSE i \in at : TRUE].value

\* C1: the Available Commands section has exactly one line for each name of
\* the manifest that starts with "fix:" and no line for any other name, so as
\* many lines as there are such names; every line of the section is a command
\* line and no command line stands outside it.
C1_ListsExactlyFixKeys ==
  \A p \in Produced :
    LET section == CommandSection(p.doc) IN
    /\ \A i \in 1..Len(section) : section[i].layout = "command"
    /\ Len(SelectSeq(p.doc, LAMBDA l : l.layout = "command")) = Len(section)
    /\ Len(section) = Cardinality(FixNames(p.input))
    /\ \A name \in KeyPool \cup WrittenNames(p.input) :
         Cardinality({ i \in 1..Len(section) : section[i].cmd = name })
           = IF name \in FixNames(p.input) THEN 1 ELSE 0

\* A caller got a help text for a manifest that holds one command, written
\* twice, the name "other" and the bare name "fix".
C1_Witness ==
  /\ lastCall.made /\ ~lastCall.outcome.threw
  /\ lastCall.input \in Manifests
  /\ Len(lastCall.input.scripts.props) > Cardinality(WrittenNames(lastCall.input))
  /\ KeyOther \in WrittenNames(lastCall.input)
  /\ FixBare \in WrittenNames(lastCall.input)
  /\ Cardinality(FixNames(lastCall.input)) = 1
  /\ Len(CommandSection(lastCall.outcome.value)) = 1

\* C3: the command lines stand in strictly ascending lexicographic order of
\* the command names, whatever the order of the names in the manifest.
C3_AscendingOrder ==
  \A p \in Produced :
    LET section == CommandSection(p.doc) IN
    \A i, j \in 1..Len(section) :
      i < j => LexBefore(section[i].cmd, section[j].cmd)

\* A help text of three commands whose names the manifest holds in descending
\* order, "fix:a" being a prefix of "fix:all".
C3_Witness ==
  /\ lastCall.made /\ ~lastCall.outcome.threw
  /\ Len(lastCall.input.scripts.props) = 3
  /\ lastCall.input.scripts.props[1].key = KeyText
  /\ lastCall.input.scripts.props[2].key = KeyAll
  /\ lastCall.input.scripts.props[3].key = KeyA
  /\ Len(CommandSection(lastCall.outcome.value)) = 3

\* C4: a command line carries the description the table maps its command to
\* when the table has the command, and the fallback text exactly when the
\* table does not have it.
C4_DescriptionOrFallback ==
  \A p \in Produced :
    LET section == CommandSection(p.doc) IN
    \A i \in 1..Len(section) :
      /\ section[i].layout = "command"
      /\ TableText(section[i].cmd) # "" => section[i].text = TableText(section[i].cmd)
      /\ section[i].text = "Run fix command" <=> TableText(section[i].cmd) = ""

\* A help text with a command of the table and a command the table lacks.
C4_Witness ==
  /\ lastCall.made /\ ~lastCall.outcome.threw
  /\ \E i, j \in 1..Len(CommandSection(lastCall.outcome.value)) :
       /\ CommandSection(lastCall.outcome.value)[i].cmd = KeyA
       /\ CommandSection(lastCall.outcome.value)[i].text = "Run fix command"
       /\ CommandSection(lastCall.outcome.value)[j].cmd = KeyAll
       /\ CommandSection(lastCall.outcome.value)[j].text
            = "Run all fix commands (except i18n)"

\* The lines of a help text from the line after the heading `from` up to the
\* line before the heading `to`.
Between(doc, from, to) ==
  LET first == 1 + CHOOSE i \in 1..Len(doc) : doc[i].layout = from
      next == CHOOSE i \in 1..Len(doc) : doc[i].layout = to
  IN SubSeq(doc, first, next - 1)

\* The lines the usage examples of the source make, in their authored order.
AuthoredExamples ==
  [n \in 1..(3 * Len(UsageExamplesLiteral)) |->
     LET example == UsageExamplesLiteral[((n - 1) \div 3) + 1] IN
     CASE n % 3 = 1 -> [layout |-> "exampleCommand", cmd |-> <<>>,
                        text |-> example.command]
       [] n % 3 = 2 -> [layout |-> "exampleDescription", cmd |-> <<>>,
                        text |-> example.description]
       [] OTHER -> [layout |-> "exampleWhen", cmd |-> <<>>, text |-> example.when]]

\* The lines the troubleshooting tips of the source make, in their order.
AuthoredTips ==
  [n \in 1..(2 * Len(TroubleshootingLiteral)) |->
     LET tip == TroubleshootingLiteral[((n - 1) \div 2) + 1] IN
     IF n % 2 = 1
     THEN [layout |-> "tipIssue", cmd |-> <<>>, text |-> tip.issue]
     ELSE [layout |-> "tipSolution", cmd |-> <<>>, text |-> tip.solution]]

\* A help text is whole: it runs from the title to the footer.
Complete(doc) ==
  /\ doc # <<>>
  /\ doc[1].layout = "title"
  /\ doc[Len(doc)].layout = "footer"

\* The main block ended the way of a success.
SuccessOutcome ==
  /\ exitCode = 0
  /\ Len(stdout) = 1 /\ Complete(stdout[1])
  /\ stderr = <<>>

\* The main block ended the way of a failure, reporting `message`.
FailureOutcome(message) ==
  /\ exitCode # 0
  /\ stdout = <<>>
  /\ Len(stderr) = 1
  /\ stderr[1].label = "Error generating help text:"
  /\ stderr[1].message = message
  /\ message # ""

\* C2: a run on a structurally invalid manifest (not JSON, no "scripts"
\* mapping, or a "scripts" member that is null, a number, a string or an
\* array) ends with a non-zero exit status and a non-empty diagnostic message,
\* never with status 0 and a help text.
C2_MalformedNeverSilent ==
  (pc = "exited" /\ packageJsonFile \in Unreadable \cup Misshapen)
    => /\ exitCode # 0
       /\ stdout = <<>>
       /\ stderr # <<>>
       /\ stderr[1].message # ""

\* C5: run as the entry point, the program ends in exactly one of two ways:
\* the whole help text on standard output and status 0, or the error message
\* with the failure's own message on the diagnostic stream, nothing on
\* standard output and a non-zero status; the second when package.json cannot
\* be read or parsed, the first for every manifest; one attempt is made.
C5_ExitOutcomes ==
  /\ pc # "exited" => exitCode = -1
  /\ pc = "exited" =>
       /\ SuccessOutcome # (\E m \in {ENOENT, SyntaxErrorMessage, TypeErrorNull,
                                      TypeErrorKeys} : FailureOutcome(m))
       /\ packageJsonFile.kind = "missing" => FailureOutcome(ENOENT)
       /\ packageJsonFile.kind = "garbage" => FailureOutcome(SyntaxErrorMessage)
       /\ packageJsonFile \in Manifests => SuccessOutcome

\* The main block ran on a package.json that is not JSON.
C5_Witness ==
  /\ pc = "exited"
  /\ packageJsonFile.kind = "garbage"
  /\ exitCode = 1
  /\ Len(stderr) = 1

\* C6: every help text holds the usage examples, each once and in their
\* authored order, in the Usage Examples section, and the troubleshooting
\* entries, each once and in their order, in the Troubleshooting section.
C6_ExamplesAndTipsInOrder ==
  \A p \in Produced :
    /\ Between(p.doc, "usageHeader", "howHeader") = AuthoredExamples
    /\ Between(p.doc, "troubleshootingHeader", "docsHeader") = AuthoredTips
    /\ Len(SelectSeq(p.doc, LAMBDA l : l.layout \in
             {"exampleCommand", "exampleDescription", "exampleWhen"}))
         = Len(AuthoredExamples)
    /\ Len(SelectSeq(p.doc, LAMBDA l : l.layout \in {"tipIssue", "tipSolution"}))
         = Len(AuthoredTips)

\* A help text for a manifest with no "fix:" command, and so none of the
\* commands of the examples.
C6_Witness ==
  /\ lastCall.made /\ ~lastCall.outcome.threw
  /\ lastCall.input \in Manifests
  /\ FixNames(lastCall.input) = {}
  /\ lastCall.input.scripts.props # <<>>
  /\ Len(lastCall.outcome.value) > Len(AuthoredExamples) + Len(AuthoredTips)

C8_OnlyFixNamesMatter ==
  lastCall.sameFixNames =>
    /\ lastCall.sameOutcome
    /\ ~lastCall.outcome.threw

\* Two calls in a row on different manifests with the same two commands, the
\* second manifest holding them in descending order next to another name.
C8_Witness ==
  /\ lastCall.sameFixNames
  /\ ~lastCall.sameInput
  /\ Len(lastCall.input.scripts.props) = 3
  /\ lastCall.input.scripts.props[1].key = KeyOther
  /\ lastCall.input.scripts.props[2].key = KeyText
  /\ lastCall.input.scripts.props[3].key = KeyA

\* C9: called as a function, generateHelpText surfaces a package.json that
\* cannot be read or parsed as a thrown error with the failure's message and
\* returns nothing; a call returns a whole text or throws; the caller's process
\* is not ended and nothing is written to either stream.
C9_ThrowsToCaller ==
  /\ ~requireMain =>
       /\ stdout = <<>> /\ stderr = <<>>
       /\ exitCode = -1 /\ pc # "exited"
  /\ lastCall.made =>
       /\ lastCall.input.kind = "missing" =>
            lastCall.outcome.threw /\ lastCall.outcome.message = ENOENT
       /\ lastCall.input.kind = "garbage" =>
            lastCall.outcome.threw /\ lastCall.outcome.message = SyntaxErrorMessage
       /\ lastCall.outcome.threw =>
            lastCall.outcome.value = <<>> /\ lastCall.outcome.message # ""
       /\ ~lastCall.outcome.threw => Complete(lastCall.outcome.value)

\* A call has thrown for want of a readable package.json.
C9_Witness ==
  /\ ~requireMain
  /\ lastCall.made
  /\ lastCall.input.kind = "missing"
  /\ lastCall.outcome.threw

\* C10: whatever calls were made, the three tables are as authored, a call
\* leaves package.json as it found it, and a call on the manifest of the call
\* before returns what that call returned.
C10_TablesAndManifestUntouched ==
  /\ COMMAND_DESCRIPTIONS = CommandDescriptionsLiteral
  /\ USAGE_EXAMPLES = UsageExamplesLiteral
  /\ TROUBLESHOOTING = TroubleshootingLiteral
  /\ lastCall.made => lastCall.fileAfter = lastCall.input
  /\ lastCall.sameInput => lastCall.sameOutcome

\* A second call on a manifest that holds "fix:text" before "fix:a" has
\* returned, after the first call sorted its own list of these names.
C10_Witness ==
  /\ lastCall.sameInput
  /\ ~lastCall.outcome.threw
  /\ lastCall.fileAfter = packageJsonFile
  /\ Len(lastCall.input.scripts.props) >= 2
  /\ lastCall.input.scripts.props[1].key = KeyText
  /\ lastCall.input.scripts.props[2].key = KeyA

====
